---- MODULE Spec2Model ----
(***************************************************************************)
(* Sales forecasting pipeline of src/main.py:                              *)
(*   load_sales_data -> filter_by_season -> forecast_sales (per product)   *)
(*   -> plot_forecasts.                                                    *)
(*                                                                         *)
(* Text is a sequence of one-character strings, so that slicing, regex     *)
(* replacement, lower-casing and parsing are computed and not assumed.     *)
(* A timestamp is a record [year, month, day]; NaT is the all-zero record. *)
(* A missing number is the value NaN; a missing text is NaNText.           *)
(*                                                                         *)
(* Two specifications:                                                     *)
(*   Spec         the functions filter_by_season, forecast_sales and       *)
(*                plot_forecasts called on an arbitrary normalized table;  *)
(*   SpecPipeline the script: a raw table goes through load_sales_data,    *)
(*                the season filter, the product selection, the forecast   *)
(*                loop and the plot.                                       *)
(* The script block is guarded by __name__ == "_main_" (line 121), which   *)
(* no run satisfies; SpecPipeline is the block as it reads, lines 127-161. *)
(* The st.* display calls of the script (among them sales.sample(5), which *)
(* needs five rows) keep no pipeline state and are not modelled.           *)
(* pandas and statsmodels are modelled by what the calls made here do.     *)
(* The numeric values of a fitted forecast (the optimiser of statsmodels)  *)
(* are not modelled: a forecast value is the pair of the fitted model and  *)
(* the step it predicts.                                                   *)
(***************************************************************************)
EXTENDS Integers, Sequences, FiniteSets, TLC

VARIABLES raw, sales, season, filtered_sales, selected_product_codes,
          loop_i, forecasts, call, fig, exc, pc

vars == <<raw, sales, season, filtered_sales, selected_product_codes,
          loop_i, forecasts, call, fig, exc, pc>>

(***************************************************************************)
(* Bounds                                                                  *)
(***************************************************************************)
MaxRows == 3

(***************************************************************************)
(* Text                                                                    *)
(***************************************************************************)
Range(s) == { s[i] : i \in 1..Len(s) }

UpperCase == <<"A","B","C","D","E","F","G","H","I","J","K","L","M",
               "N","O","P","Q","R","S","T","U","V","W","X","Y","Z">>

LowerCase == <<"a","b","c","d","e","f","g","h","i","j","k","l","m",
               "n","o","p","q","r","s","t","u","v","w","x","y","z">>

Digits == <<"0","1","2","3","4","5","6","7","8","9">>

NaNText == <<"NaN">>

NaN == -999

isna(x) == x = NaN

\* NumPy/pandas comparison: any comparison with NaN is False
lt(a, b) == ~isna(a) /\ ~isna(b) /\ a < b

str_lower_char(c) ==
    IF c \in Range(UpperCase)
    THEN LowerCase[CHOOSE i \in 1..Len(UpperCase) : UpperCase[i] = c]
    ELSE c

str_lower(t) ==
    IF t = NaNText THEN NaNText
    ELSE [i \in 1..Len(t) |-> str_lower_char(t[i])]

\* r"[^a-zA-Z0-9\s]" -> " "
str_replace_punct(t) ==
    IF t = NaNText THEN NaNText
    ELSE [i \in 1..Len(t) |->
            IF t[i] \in Range(UpperCase) \cup Range(LowerCase)
                        \cup Range(Digits) \cup {" "}
            THEN t[i] ELSE " "]

\* .str.replace("-", "")
str_remove_hyphen(t) == SelectSeq(t, LAMBDA c : c # "-")

DigitValue(c) == (CHOOSE i \in 1..Len(Digits) : Digits[i] = c) - 1

IsIntText(t) == Len(t) > 0 /\ \A i \in 1..Len(t) : t[i] \in Range(Digits)

RECURSIVE astype_int(_)
astype_int(t) ==
    IF Len(t) = 0 THEN 0
    ELSE 10 * astype_int(SubSeq(t, 1, Len(t) - 1)) + DigitValue(t[Len(t)])

RECURSIVE str_of_int(_)
str_of_int(n) ==
    IF n < 10 THEN <<Digits[n + 1]>>
    ELSE str_of_int(n \div 10) \o <<Digits[(n % 10) + 1]>>

\* f"Product {product_code}"
ProductLabel(product_code) ==
    <<"P","r","o","d","u","c","t"," ">> \o str_of_int(product_code)

(***************************************************************************)
(* Calendar                                                                *)
(***************************************************************************)
NaT == [year |-> 0, month |-> 0, day |-> 0]

Timestamp(y, m, d) == [year |-> y, month |-> m, day |-> d]

MonthAbbr == <<"Jan","Feb","Mar","Apr","May","Jun",
               "Jul","Aug","Sep","Oct","Nov","Dec">>

MonthAbbrChars == << <<"j","a","n">>, <<"f","e","b">>, <<"m","a","r">>,
                     <<"a","p","r">>, <<"m","a","y">>, <<"j","u","n">>,
                     <<"j","u","l">>, <<"a","u","g">>, <<"s","e","p">>,
                     <<"o","c","t">>, <<"n","o","v">>, <<"d","e","c">> >>

IsLeap(y) == (y % 4 = 0 /\ y % 100 # 0) \/ y % 400 = 0

DaysInMonth(y, m) ==
    IF m = 2 THEN (IF IsLeap(y) THEN 29 ELSE 28)
    ELSE IF m \in {4, 6, 9, 11} THEN 30 ELSE 31

\* number of the calendar month of a timestamp, counted from year 0
MonthIndex(ts) == ts.year * 12 + (ts.month - 1)

\* the last day of the calendar month with that number
MonthEnd(idx) ==
    Timestamp(idx \div 12, (idx % 12) + 1,
              DaysInMonth(idx \div 12, (idx % 12) + 1))

\* Series.dt.strftime("%b"): NaT gives a missing value
strftime_b(ts) == IF ts = NaT THEN "NaN" ELSE MonthAbbr[ts.month]

\* ts + pd.DateOffset(months=1): next month, day clipped to its length
DateOffsetMonths1(ts) ==
    LET y == IF ts.month = 12 THEN ts.year + 1 ELSE ts.year
        m == IF ts.month = 12 THEN 1 ELSE ts.month + 1
        d == IF ts.day > DaysInMonth(y, m) THEN DaysInMonth(y, m) ELSE ts.day
    IN  Timestamp(y, m, d)

\* pd.date_range(start=start, periods=periods, freq="M"): the month ends on
\* or after start
date_range_M(start, periods) ==
    [i \in 1..periods |-> MonthEnd(MonthIndex(start) + (i - 1))]

(***************************************************************************)
(* load_sales_data                                                         *)
(***************************************************************************)
\* the year strptime gives a date parsed with a format that has no year
DefaultYear == 1900

\* Series.str[:3]: a missing text stays missing
str_slice3(t) ==
    IF t = NaNText THEN NaNText
    ELSE SubSeq(t, 1, IF Len(t) < 3 THEN Len(t) ELSE 3)

\* t + "-01": a missing text stays missing
str_append_day(t) == IF t = NaNText THEN NaNText ELSE t \o <<"-","0","1">>

\* pd.to_datetime(t, format='%b-%d', errors='coerce'): a month abbreviation
\* (any case), a hyphen and a day of one or two digits; the year is the
\* default year; anything else is NaT
to_datetime_b_d(t) ==
    IF /\ t # NaNText
       /\ Len(t) \in {5, 6}
       /\ str_lower(SubSeq(t, 1, 3)) \in Range(MonthAbbrChars)
       /\ t[4] = "-"
       /\ IsIntText(SubSeq(t, 5, Len(t)))
    THEN LET m == CHOOSE k \in 1..12 :
                      MonthAbbrChars[k] = str_lower(SubSeq(t, 1, 3))
             d == astype_int(SubSeq(t, 5, Len(t)))
         IN  IF d >= 1 /\ d <= DaysInMonth(DefaultYear, m)
             THEN Timestamp(DefaultYear, m, d)
             ELSE NaT
    ELSE NaT

\* a parse that would keep a two-digit year found at the end of the text
parse_MONTH_keep_year(t) ==
    LET ts == to_datetime_b_d(str_append_day(str_slice3(t)))
    IN  IF ts # NaT /\ Len(t) >= 5 /\ IsIntText(SubSeq(t, Len(t) - 1, Len(t)))
        THEN Timestamp(2000 + astype_int(SubSeq(t, Len(t) - 1, Len(t))),
                       ts.month, ts.day)
        ELSE ts

\* lines 28-32: the MONTH column of one row
parse_MONTH(t) == to_datetime_b_d(str_append_day(str_slice3(t)))

\* Series.dt.year: NaT gives a missing value
dt_year(ts) == IF ts = NaT THEN NaN ELSE ts.year

\* Series.min(): missing values are skipped; all missing gives missing
series_min(col) ==
    LET vals == { col[i] : i \in 1..Len(col) } \ {NaN}
    IN  IF vals = {} THEN NaN
        ELSE CHOOSE v \in vals : \A w \in vals : v <= w

\* line 40: np.where(q < 0, 0, q)
clamp_quantity(q) == IF lt(q, 0) THEN 0 ELSE q

\* line 25 raises ValueError when a code without hyphens is not an integer
load_sales_data(file) ==
    IF \E i \in 1..Len(file) :
           ~IsIntText(str_remove_hyphen(file[i].PRODUCT_CODE))
    THEN [exc |-> "ValueError", sales |-> <<>>]
    ELSE
      LET month == [i \in 1..Len(file) |-> parse_MONTH(file[i].MONTH)]
          year0 == [i \in 1..Len(file) |-> dt_year(month[i])]
          year  == IF lt(series_min(year0), 1900)
                   THEN [i \in 1..Len(file) |-> dt_year(month[i])]
                   ELSE year0
      IN [exc |-> "None",
          sales |-> [i \in 1..Len(file) |->
             [PRODUCT_CODE |-> astype_int(str_remove_hyphen(file[i].PRODUCT_CODE)),
              PRODUCT_DESCRIPTION |->
                  str_lower(str_replace_punct(file[i].PRODUCT_DESCRIPTION)),
              MONTH |-> month[i],
              YEAR |-> year[i],
              QUANTITY |-> clamp_quantity(file[i].QUANTITY)]]]

(***************************************************************************)
(* filter_by_season                                                        *)
(***************************************************************************)
Seasons == {"All", "Winter", "Spring", "Summer", "Autumn"}

\* a table in which Winter would be the first three months of the year
SEASON_MONTHS_shifted ==
    [s \in {"Winter", "Spring", "Summer", "Autumn"} |->
        CASE s = "Winter" -> <<"Jan", "Feb", "Mar">>
          [] s = "Spring" -> <<"Apr", "May", "Jun">>
          [] s = "Summer" -> <<"Jul", "Aug", "Sep">>
          [] s = "Autumn" -> <<"Oct", "Nov", "Dec">>]

SEASON_MONTHS ==
    [s \in {"Winter", "Spring", "Summer", "Autumn"} |->
        CASE s = "Winter" -> <<"Dec", "Jan", "Feb">>
          [] s = "Spring" -> <<"Mar", "Apr", "May">>
          [] s = "Summer" -> <<"Jun", "Jul", "Aug">>
          [] s = "Autumn" -> <<"Sep", "Oct", "Nov">>]

filter_by_season(df, s) ==
    IF s = "All" THEN df
    ELSE LET months == SEASON_MONTHS[s]
         IN  SelectSeq(df, LAMBDA r : strftime_b(r.MONTH) \in Range(months))

(***************************************************************************)
(* forecast_sales                                                          *)
(***************************************************************************)
\* line 56: the rows of one product, in table order
select_product(df, product_code) ==
    SelectSeq(df, LAMBDA r : r.PRODUCT_CODE = product_code)

\* lines 61-62: Series.empty is true only of a series without elements
pick_description(product_df, product_code) ==
    IF ~(Len(product_df) = 0)
    THEN product_df[1].PRODUCT_DESCRIPTION
    ELSE ProductLabel(product_code)

\* DataFrame.sum(): missing values are skipped
RECURSIVE sum_quantity(_)
sum_quantity(rows) ==
    IF Len(rows) = 0 THEN 0
    ELSE (IF isna(rows[1].QUANTITY) THEN 0 ELSE rows[1].QUANTITY)
         + sum_quantity(Tail(rows))

has_valid_month(product_df) ==
    \E i \in 1..Len(product_df) : product_df[i].MONTH # NaT

\* a resampling that would keep only the months that have rows
resample_M_sum_no_fill(product_df) ==
    LET valid == SelectSeq(product_df, LAMBDA r : r.MONTH # NaT)
        idxs  == { MonthIndex(valid[i].MONTH) : i \in 1..Len(valid) }
        RECURSIVE ordered(_)
        ordered(S) ==
            IF S = {} THEN <<>>
            ELSE LET lo == CHOOSE a \in S : \A b \in S : a <= b
                 IN  <<lo>> \o ordered(S \ {lo})
        order == ordered(idxs)
    IN  [k \in 1..Len(order) |->
           [MONTH    |-> MonthEnd(order[k]),
            QUANTITY |-> sum_quantity(SelectSeq(valid,
                            LAMBDA r : MonthIndex(r.MONTH) = order[k]))]]

\* lines 63-64: set_index("MONTH").resample("M").sum(): one bin per calendar
\* month from the first to the last month that has a row, labelled by the
\* month end, empty bins sum to 0; rows whose index is NaT fall in no bin
resample_M_sum(product_df) ==
    LET valid == SelectSeq(product_df, LAMBDA r : r.MONTH # NaT)
        idxs  == { MonthIndex(valid[i].MONTH) : i \in 1..Len(valid) }
        first == CHOOSE a \in idxs : \A b \in idxs : a <= b
        last  == CHOOSE a \in idxs : \A b \in idxs : a >= b
    IN  [k \in 1..(last - first + 1) |->
           [MONTH    |-> MonthEnd(first + k - 1),
            QUANTITY |-> sum_quantity(SelectSeq(valid,
                            LAMBDA r : MonthIndex(r.MONTH) = first + k - 1))]]

NoModel == [trend |-> "none", seasonal |-> "none", seasonal_periods |-> 0]

\* a selection whose threshold would be one seasonal cycle
select_model_one_cycle(n) ==
    IF n < 12
    THEN [trend |-> "add", seasonal |-> "none", seasonal_periods |-> 0]
    ELSE [trend |-> "add", seasonal |-> "add", seasonal_periods |-> 12]

\* lines 67-72: the model that is constructed for a series of n observations
select_model(n) ==
    IF n < 24
    THEN [trend |-> "add", seasonal |-> "none", seasonal_periods |-> 0]
    ELSE [trend |-> "add", seasonal |-> "add", seasonal_periods |-> 12]

\* ExponentialSmoothing(...).fit(): the initialisation of an additive trend
\* reads the second observation and raises IndexError when there is none;
\* a failure of the optimiser to converge is a warning, not an exception
fit(n, model) == IF n < 2 THEN "IndexError" ELSE "None"

\* model.forecast(steps): one value per step
model_forecast(model, steps) ==
    [h \in 1..steps |-> [step |-> h, seasonal |-> model.seasonal]]

\* a default horizon of half a year
forecast_periods_half_year(arg) == IF arg = <<>> THEN 6 ELSE arg[1]

\* line 54: forecast_periods=12; arg is <<>> when the caller gives none
forecast_periods_of(arg) == IF arg = <<>> THEN 12 ELSE arg[1]

Returned(outcome, product_df, forecast, description, series, model) ==
    [exc |-> outcome.exc, isNone |-> outcome.isNone,
     historical_data |-> product_df, forecast |-> forecast,
     product_description |-> description,
     resampled |-> series, model |-> model]

forecast_sales(df, product_code, arg) ==
    LET forecast_periods == forecast_periods_of(arg)
        product_df == select_product(df, product_code)
    IN
    IF Len(product_df) = 0
    THEN Returned([exc |-> "None", isNone |-> TRUE],
                  <<>>, <<>>, <<>>, <<>>, NoModel)
    ELSE
      LET product_description == pick_description(product_df, product_code)
      IN
      IF ~has_valid_month(product_df)
      THEN \* resample has no first and last month: date_range raises
           Returned([exc |-> "ValueError", isNone |-> FALSE],
                    <<>>, <<>>, <<>>, <<>>, NoModel)
      ELSE
        LET resampled == resample_M_sum(product_df)
            model     == select_model(Len(resampled))
            fitted    == fit(Len(resampled), model)
        IN
        IF fitted # "None"
        THEN Returned([exc |-> fitted, isNone |-> FALSE],
                      <<>>, <<>>, <<>>, resampled, model)
        ELSE Returned([exc |-> "None", isNone |-> FALSE],
                      resampled, model_forecast(model, forecast_periods),
                      product_description, resampled, model)

(***************************************************************************)
(* plot_forecasts                                                          *)
(***************************************************************************)
\* an axis that would start at the last historical month end itself
forecast_index_no_offset(historical_data, forecast) ==
    date_range_M(historical_data[Len(historical_data)].MONTH, Len(forecast))

\* lines 98-102
forecast_index(historical_data, forecast) ==
    date_range_M(DateOffsetMonths1(historical_data[Len(historical_data)].MONTH),
                 Len(forecast))

\* the two traces added for one result, lines 90-108
traces_of(result) ==
    << [name |-> <<result.product_description, "Historical">>,
        x |-> [i \in 1..Len(result.historical_data) |->
                  result.historical_data[i].MONTH],
        y |-> [i \in 1..Len(result.historical_data) |->
                  result.historical_data[i].QUANTITY]],
       [name |-> <<result.product_description, "Forecast">>,
        x |-> forecast_index(result.historical_data, result.forecast),
        y |-> result.forecast] >>

RECURSIVE plot_forecasts(_)
plot_forecasts(results) ==
    IF Len(results) = 0 THEN <<>>
    ELSE traces_of(results[1]) \o plot_forecasts(Tail(results))

(***************************************************************************)
(* Inputs                                                                  *)
(***************************************************************************)
Text_W_d  == <<"W","!","d">>
Text_g    == <<"g">>
Text_w    == <<"w">>
Code_7    == <<"7">>
Code_1_2  == <<"1","-","2">>
Code_x1   == <<"x","1">>
Jan_20    == <<"J","a","n","-","2","0">>
Apr_20    == <<"A","P","R","-","2","0">>
Dec_21    == <<"D","e","c","-","2","1">>
Month_n_a == <<"n","/","a">>

RawRow(c, d, m, q) ==
    [PRODUCT_CODE |-> c, PRODUCT_DESCRIPTION |-> d, MONTH |-> m, QUANTITY |-> q]

\* rows of an uploaded sheet: two products, months of different years, an
\* unparsable month, negative and missing quantities, a malformed code
RawRows ==
    { RawRow(Code_7,   Text_W_d, Jan_20,    4),
      RawRow(Code_7,   NaNText,  Apr_20,    -5),
      RawRow(Code_7,   Text_W_d, Dec_21,    3),
      RawRow(Code_7,   Text_g,   Month_n_a, 2),
      RawRow(Code_1_2, Text_g,   Jan_20,    NaN),
      RawRow(Code_1_2, Text_g,   Dec_21,    6),
      RawRow(Code_1_2, NaNText,  Apr_20,    0),
      RawRow(Code_x1,  Text_g,   Jan_20,    1) }

Row(c, d, ts, q) ==
    [PRODUCT_CODE |-> c, PRODUCT_DESCRIPTION |-> d, MONTH |-> ts,
     YEAR |-> dt_year(ts), QUANTITY |-> q]

\* rows of a normalized table handed to the functions directly: months of
\* three years, two rows in one month, NaT, empty and missing descriptions
Rows ==
    { Row(7,  Text_w,  Timestamp(2020, 1, 1),  4),
      Row(7,  <<>>,    Timestamp(2020, 2, 1),  3),
      Row(7,  Text_w,  Timestamp(2021, 12, 1), 2),
      Row(7,  Text_g,  Timestamp(2022, 12, 1), 1),
      Row(7,  Text_g,  NaT,                    5),
      Row(7,  NaNText, Timestamp(2020, 1, 15), NaN),
      Row(12, <<>>,    Timestamp(2021, 1, 1),  2),
      Row(12, NaNText, Timestamp(2021, 4, 1),  0),
      Row(12, Text_g,  Timestamp(2020, 2, 1),  6) }

TablesOf(S) == UNION { [1..n -> S] : n \in 0..MaxRows }

\* product codes asked for directly; 99 has no row
ProductCodes == {7, 12, 99}

\* the horizon argument of a direct call: none, 1 or 6
CallArgs == { <<>>, <<1>>, <<6>> }

\* st.multiselect: any of the options, each once, in the order selected
Selections(options) ==
    { s \in UNION { [1..n -> options] : n \in 0..Cardinality(options) } :
        \A i, j \in 1..Len(s) : i # j => s[i] # s[j] }

NoCall ==
    [made |-> FALSE, product_code |-> 0, arg |-> <<>>,
     ret |-> Returned([exc |-> "None", isNone |-> TRUE],
                      <<>>, <<>>, <<>>, <<>>, NoModel)]

\* lines 150-155: the bundle appended for one product
Bundle(product_code, ret) ==
    [product_code |-> product_code,
     product_description |-> ret.product_description,
     historical_data |-> ret.historical_data,
     forecast |-> ret.forecast]

(***************************************************************************)
(* State machine                                                           *)
(***************************************************************************)
Init ==
    /\ raw = <<>>
    /\ sales \in TablesOf(Rows)
    /\ season = "All"
    /\ filtered_sales = <<>>
    /\ selected_product_codes = <<>>
    /\ loop_i = 0
    /\ forecasts = <<>>
    /\ call = NoCall
    /\ fig = <<>>
    /\ exc = "None"
    /\ pc = "loaded"

InitPipeline ==
    /\ raw \in TablesOf(RawRows)
    /\ sales = <<>>
    /\ season = "All"
    /\ filtered_sales = <<>>
    /\ selected_product_codes = <<>>
    /\ loop_i = 0
    /\ forecasts = <<>>
    /\ call = NoCall
    /\ fig = <<>>
    /\ exc = "None"
    /\ pc = "start"

\* line 127
LoadSalesData ==
    /\ pc = "start"
    /\ LET r == load_sales_data(raw)
       IN  /\ sales' = r.sales
           /\ exc' = r.exc
           /\ pc' = IF r.exc = "None" THEN "loaded" ELSE "raised"
    /\ UNCHANGED <<raw, season, filtered_sales, selected_product_codes,
                   loop_i, forecasts, call, fig>>

\* lines 134-135
FilterBySeason ==
    /\ pc = "loaded"
    /\ \E s \in Seasons :
          /\ season' = s
          /\ filtered_sales' = filter_by_season(sales, s)
    /\ pc' = "filtered"
    /\ UNCHANGED <<raw, sales, selected_product_codes, loop_i, forecasts,
                   call, fig, exc>>

\* lines 138-146
SelectProducts ==
    /\ pc = "filtered"
    /\ \E sel \in Selections({ filtered_sales[i].PRODUCT_CODE :
                                   i \in 1..Len(filtered_sales) }) :
          selected_product_codes' = sel
    /\ loop_i' = 1
    /\ forecasts' = <<>>
    /\ pc' = "loop"
    /\ UNCHANGED <<raw, sales, season, filtered_sales, call, fig, exc>>

\* lines 147-155: one iteration; an exception of forecast_sales is not caught
ForecastLoop ==
    /\ pc = "loop"
    /\ loop_i <= Len(selected_product_codes)
    /\ LET product_code == selected_product_codes[loop_i]
           ret == forecast_sales(filtered_sales, product_code, <<>>)
       IN  /\ call' = [made |-> TRUE, product_code |-> product_code,
                       arg |-> <<>>, ret |-> ret]
           /\ exc' = ret.exc
           /\ IF ret.exc # "None"
              THEN /\ pc' = "raised"
                   /\ UNCHANGED <<forecasts, loop_i>>
              ELSE /\ pc' = "loop"
                   /\ loop_i' = loop_i + 1
                   /\ forecasts' = IF ~ret.isNone
                                   THEN Append(forecasts, Bundle(product_code, ret))
                                   ELSE forecasts
    /\ UNCHANGED <<raw, sales, season, filtered_sales,
                   selected_product_codes, fig>>

\* lines 158-159
ShowPlot ==
    /\ pc = "loop"
    /\ loop_i > Len(selected_product_codes)
    /\ forecasts # <<>>
    /\ fig' = plot_forecasts(forecasts)
    /\ pc' = "plotted"
    /\ UNCHANGED <<raw, sales, season, filtered_sales,
                   selected_product_codes, loop_i, forecasts, call, exc>>

\* lines 160-161
ShowWarning ==
    /\ pc = "loop"
    /\ loop_i > Len(selected_product_codes)
    /\ forecasts = <<>>
    /\ pc' = "warning"
    /\ UNCHANGED <<raw, sales, season, filtered_sales,
                   selected_product_codes, loop_i, forecasts, call, fig, exc>>

\* a direct call of forecast_sales on the filtered table
ForecastSales ==
    /\ pc = "filtered"
    /\ \E product_code \in ProductCodes, arg \in CallArgs :
          LET ret == forecast_sales(filtered_sales, product_code, arg)
          IN  /\ call' = [made |-> TRUE, product_code |-> product_code,
                          arg |-> arg, ret |-> ret]
              /\ exc' = ret.exc
              /\ pc' = IF ret.exc # "None" THEN "raised" ELSE "forecast"
              /\ forecasts' = IF ret.exc = "None" /\ ~ret.isNone
                              THEN <<Bundle(product_code, ret)>>
                              ELSE <<>>
    /\ UNCHANGED <<raw, sales, season, filtered_sales,
                   selected_product_codes, loop_i, fig>>

\* a direct call of plot_forecasts on the bundles
PlotForecasts ==
    /\ pc = "forecast"
    /\ fig' = plot_forecasts(forecasts)
    /\ pc' = "plotted"
    /\ UNCHANGED <<raw, sales, season, filtered_sales,
                   selected_product_codes, loop_i, forecasts, call, exc>>

Next == FilterBySeason \/ ForecastSales \/ PlotForecasts

Spec == Init /\ [][Next]_vars

NextPipeline ==
    \/ LoadSalesData
    \/ FilterBySeason
    \/ SelectProducts
    \/ ForecastLoop
    \/ ShowPlot
    \/ ShowWarning

SpecPipeline == InitPipeline /\ [][NextPipeline]_vars

(***************************************************************************)
(* Properties                                                              *)
(***************************************************************************)
\* the matching rows of the last call of forecast_sales
Matching == SelectSeq(filtered_sales,
                      LAMBDA r : r.PRODUCT_CODE = call.product_code)

ValidMatching == SelectSeq(Matching, LAMBDA r : r.MONTH # NaT)

\* a description that is the empty text or is missing
EmptyDescription(d) == d = <<>> \/ d = NaNText

\* the sum of a column of numbers, a missing number counting as 0
RECURSIVE Total(_)
Total(col) ==
    IF Len(col) = 0 THEN 0
    ELSE (IF col[1] = NaN THEN 0 ELSE col[1]) + Total(Tail(col))

QuantityColumn(rows) == [i \in 1..Len(rows) |-> rows[i].QUANTITY]

\* the series s runs month by month from the first to the last month that
\* the rows with a valid month have
CoversObservedMonths(s, rows) ==
    /\ Len(s) >= 1
    /\ \A i \in 1..(Len(s) - 1) :
          MonthIndex(s[i + 1].MONTH) = MonthIndex(s[i].MONTH) + 1
    /\ \A i \in 1..Len(rows) :
          /\ MonthIndex(s[1].MONTH) <= MonthIndex(rows[i].MONTH)
          /\ MonthIndex(rows[i].MONTH) <= MonthIndex(s[Len(s)].MONTH)
    /\ \E i \in 1..Len(rows) :
          MonthIndex(rows[i].MONTH) = MonthIndex(s[1].MONTH)
    /\ \E i \in 1..Len(rows) :
          MonthIndex(rows[i].MONTH) = MonthIndex(s[Len(s)].MONTH)

LoopEnded ==
    \/ pc \in {"plotted", "warning"}
    \/ pc = "raised" /\ loop_i >= 1

\* C1: when the forecast loop has ended and the only failures among the
\* selected products are series too short to fit, every selected product
\* whose forecast succeeds is in the result list.
C1_ErrorIsolation ==
    LET result(k) ==
            forecast_sales(filtered_sales, selected_product_codes[k], <<>>)
        succeeds(k) == result(k).exc = "None" /\ ~result(k).isNone
        too_short(k) == /\ result(k).exc # "None"
                        /\ result(k).model # NoModel
                        /\ Len(result(k).resampled) < 2
    IN  ( /\ LoopEnded
          /\ \A k \in 1..Len(selected_product_codes) :
                succeeds(k) \/ too_short(k) )
        => \A k \in 1..Len(selected_product_codes) :
              succeeds(k) =>
                \E j \in 1..Len(forecasts) :
                   forecasts[j].product_code = selected_product_codes[k]

\* C2: a series of fewer than 24 observations gets the additive-trend model
\* without a seasonal component, a series of 24 or more gets the additive
\* trend, additive seasonal model of period 12.
C2_ModelSelection ==
    (call.made /\ call.ret.model # NoModel) =>
      LET n == Len(call.ret.resampled)
          m == call.ret.model
      IN  /\ m.trend = "add"
          /\ n < 24  => m.seasonal = "none"
          /\ n >= 24 => (m.seasonal = "add" /\ m.seasonal_periods = 12)

C2_Witness ==
    /\ call.made
    /\ Len(call.ret.resampled) = 24
    /\ call.ret.model.seasonal = "add"
    /\ call.ret.exc = "None"

\* C3: a call whose aggregated series has fewer than 2 observations fails
\* with InsufficientDataError and returns no forecast.
C3_InsufficientData ==
    (call.made /\ call.ret.model # NoModel /\ Len(call.ret.resampled) < 2) =>
      /\ call.ret.exc = "InsufficientDataError"
      /\ call.ret.forecast = <<>>

\* C4 as stated: a ProductSeries produced for a product with at least one
\* matching row runs month by month from the first to the last observed
\* month and its quantities sum to those of the matching rows.
C4_Original ==
    (call.made /\ Len(Matching) >= 1 /\ call.ret.model # NoModel) =>
      /\ CoversObservedMonths(call.ret.resampled, ValidMatching)
      /\ Total(QuantityColumn(call.ret.resampled))
            = Total(QuantityColumn(Matching))

\* C4 amended: for a product with at least one matching row that has a
\* valid month, the aggregated series runs month by month, ascending, from
\* the first to the last month of the matching rows with a valid month, and
\* its quantities sum to those of the matching rows with a valid month, a
\* missing quantity counting as 0.
C4_Aggregation ==
    (call.made /\ Len(ValidMatching) >= 1) =>
      /\ CoversObservedMonths(call.ret.resampled, ValidMatching)
      /\ Total(QuantityColumn(call.ret.resampled))
            = Total(QuantityColumn(ValidMatching))

C4_Witness ==
    /\ call.made
    /\ Len(ValidMatching) >= 2
    /\ Len(Matching) > Len(ValidMatching)
    /\ Len(call.ret.resampled) > Len(ValidMatching)
    /\ Total(QuantityColumn(call.ret.resampled)) > 0

\* C5: a returned forecast has exactly forecast_periods values, 12 when the
\* caller gives no horizon.
C5_ForecastLength ==
    (call.made /\ call.ret.exc = "None" /\ ~call.ret.isNone) =>
      Len(call.ret.forecast) = (IF call.arg = <<>> THEN 12 ELSE call.arg[1])

C5_Witness ==
    /\ call.made
    /\ call.ret.exc = "None"
    /\ ~call.ret.isNone
    /\ call.arg = <<>>
    /\ call.ret.model.seasonal = "add"
    /\ Len(call.ret.forecast) = 12

\* C6: the forecast axis of every plotted bundle has one month per forecast
\* value, the first being the month after the last historical month and
\* each next one the month after the one before.
C6_ForecastAxis ==
    pc = "plotted" =>
      \A k \in 1..Len(forecasts) :
        LET hist == forecasts[k].historical_data
            axis == fig[2 * k].x
        IN  /\ Len(axis) = Len(forecasts[k].forecast)
            /\ \A i \in 1..Len(axis) :
                  MonthIndex(axis[i]) = MonthIndex(hist[Len(hist)].MONTH) + i

C6_Witness ==
    /\ pc = "plotted"
    /\ Len(forecasts) = 1
    /\ forecasts[1].historical_data[Len(forecasts[1].historical_data)].MONTH.month = 2
    /\ Len(fig[2].x) = 6

\* C7: after load_sales_data every quantity is non-negative: a negative
\* quantity became 0, a non-negative one is unchanged, a missing one became 0.
C7_QuantityNonNegative ==
    pc = "loaded" =>
      \A i \in 1..Len(sales) :
        /\ sales[i].QUANTITY # NaN
        /\ sales[i].QUANTITY >= 0
        /\ (raw[i].QUANTITY # NaN /\ raw[i].QUANTITY < 0)
              => sales[i].QUANTITY = 0
        /\ (raw[i].QUANTITY # NaN /\ raw[i].QUANTITY >= 0)
              => sales[i].QUANTITY = raw[i].QUANTITY
        /\ raw[i].QUANTITY = NaN => sales[i].QUANTITY = 0

\* the calendar months of a season, by number
SeasonMonthNumbers(s) ==
    CASE s = "Winter" -> {12, 1, 2}
      [] s = "Spring" -> {3, 4, 5}
      [] s = "Summer" -> {6, 7, 8}
      [] s = "Autumn" -> {9, 10, 11}

\* C8: "All" returns the table; any other season returns exactly the rows
\* whose month is one of the season's three, in table order; filtering the
\* result again with the same season changes nothing.
C8_SeasonFilter ==
    pc = "filtered" =>
      /\ season = "All" => filtered_sales = sales
      /\ season # "All" =>
            filtered_sales =
              SelectSeq(sales, LAMBDA r :
                  r.MONTH # NaT /\ r.MONTH.month \in SeasonMonthNumbers(season))
      /\ filter_by_season(filtered_sales, season) = filtered_sales

C8_Witness ==
    /\ pc = "filtered"
    /\ season = "Winter"
    /\ { sales[i].MONTH.month : i \in 1..Len(sales) } = {1, 4, 12}
    /\ Len(filtered_sales) = 2

\* C9: the returned description is that of the first matching row whose
\* description is not empty, and "Product {id}" when every matching row has
\* an empty description.
C9_Description ==
    (call.made /\ call.ret.exc = "None" /\ ~call.ret.isNone) =>
      call.ret.product_description =
        (IF \E i \in 1..Len(Matching) :
               ~EmptyDescription(Matching[i].PRODUCT_DESCRIPTION)
         THEN LET first == CHOOSE i \in 1..Len(Matching) :
                    /\ ~EmptyDescription(Matching[i].PRODUCT_DESCRIPTION)
                    /\ \A j \in 1..(i - 1) :
                          EmptyDescription(Matching[j].PRODUCT_DESCRIPTION)
              IN  Matching[first].PRODUCT_DESCRIPTION
         ELSE ProductLabel(call.product_code))

====
